---- MODULE Spec2Model ----
(***************************************************************************)
(* Model of qiskit/simulators/_unitarysimulator.py (UnitarySimulator).     *)
(*                                                                         *)
(* A complex number is a pair <<re, im>> of integers (the gates used here  *)
(* have small integer parts, which complex128 represents exactly).  A      *)
(* d x d array is a function [0..d-1 -> [0..d-1 -> complex]].              *)
(***************************************************************************)
EXTENDS Integers, Sequences, FiniteSets, TLC

\* ------------------------------------------------------------------ bounds
MaxQubits == 3
MaxOps == 2
MaxRuns == 2
\* a circuit of len operations on n qubits is drawn only if len * 2^n <= MaxWork
MaxWork == 16

\* ------------------------------------------------------- complex arithmetic
CZero == <<0, 0>>
COne == <<1, 0>>
CAdd(a, b) == <<a[1] + b[1], a[2] + b[2]>>
CMul(a, b) == <<a[1] * b[1] - a[2] * b[2], a[1] * b[2] + a[2] * b[1]>>

\* Storing a complex128 value into a float64 array keeps the real part only.
FloatCast(a) == <<a[1], 0>>

Dim(M) == Cardinality(DOMAIN M)

\* An array is a value held in memory: the comparison makes TLC compute its
\* entries once, where a bare function expression is computed at every access.
Array(M) == IF M = M THEN M ELSE M

\* np.identity(d, dtype=complex)
Identity(d) ==
    Array([r \in 0..(d - 1) |-> [c \in 0..(d - 1) |-> IF r = c THEN COne ELSE CZero]])

\* np.zeros([d, d]): a float64 array
Zeros(d) == Array([r \in 0..(d - 1) |-> [c \in 0..(d - 1) |-> CZero]])

RECURSIVE DotSum(_, _, _, _, _)
DotSum(A, B, r, c, k) ==
    IF k < 0 THEN CZero
    ELSE CAdd(DotSum(A, B, r, c, k - 1), CMul(A[r][k], B[k][c]))

\* np.dot(A, B) for square arrays of one size
Dot(A, B) ==
    LET d == Dim(A)
    IN Array([r \in 0..(d - 1) |-> [c \in 0..(d - 1) |-> DotSum(A, B, r, c, d - 1)]])

\* np.kron(A, B) for square arrays
Kron(A, B) ==
    LET da == Dim(A)
        db == Dim(B)
    IN Array([r \in 0..(da * db - 1) |-> [c \in 0..(da * db - 1) |->
                 CMul(A[r \div db][c \div db], B[r % db][c % db])]])

\* ------------------------------------------------------------ bit operators
RECURSIVE BitAnd(_, _)
BitAnd(x, y) ==
    IF x = 0 \/ y = 0 THEN 0
    ELSE (x % 2) * (y % 2) + 2 * BitAnd(x \div 2, y \div 2)

RECURSIVE BitOr(_, _)
BitOr(x, y) ==
    IF x = 0 THEN y
    ELSE IF y = 0 THEN x
    ELSE (IF x % 2 = 1 \/ y % 2 = 1 THEN 1 ELSE 0) + 2 * BitOr(x \div 2, y \div 2)

Shl(x, i) == x * 2^i
Shr(x, i) == x \div 2^i

\* --------------------------------------------------------- Bit-index mapper
\* _index1(b, i, k)
Index1(b, i, k) ==
    LET lowbits == BitAnd(k, Shl(1, i) - 1)
        r1 == Shl(Shr(k, i), 1)
        r2 == BitOr(r1, b)
        r3 == Shl(r2, i)
    IN BitOr(r3, lowbits)

\* the assertion left out
Index2PreOff(i1, i2) == TRUE

\* assert(i1 != i2)
Index2Pre(i1, i2) == i1 # i2

\* the lower position inserted first, the higher one second
Index2LowFirst(b1, i1, b2, i2, k) ==
    IF i1 > i2
    THEN Index1(b1, i1 - 1, Index1(b2, i2, k))
    ELSE Index1(b2, i2 - 1, Index1(b1, i1, k))

\* the second branch copied from the first with the positions renamed and the
\* bits not: b1 always lands on the higher position
Index2SameBits(b1, i1, b2, i2, k) ==
    IF i1 > i2
    THEN Index1(b2, i2, Index1(b1, i1 - 1, k))
    ELSE Index1(b2, i1, Index1(b1, i2 - 1, k))

\* the body of _index2(b1, i1, b2, i2, k) after its assertion
Index2(b1, i1, b2, i2, k) ==
    IF i1 > i2
    THEN Index1(b2, i2, Index1(b1, i1 - 1, k))
    ELSE Index1(b1, i1, Index1(b2, i2 - 1, k))

\* ------------------------------------------------------------ gate embedders
\* the two identity factors exchanged: qubit 0 most significant
AddUnitarySingleMsb(gate, qubit, n) ==
    Kron(Identity(2^qubit), Kron(gate, Identity(2^(n - qubit - 1))))

\* unitaty_add of _add_unitary_single
AddUnitarySingleOp(gate, qubit, n) ==
    Kron(Identity(2^(n - qubit - 1)), Kron(gate, Identity(2^qubit)))

\* The five nested loops of _add_unitary_two, iteration t of 16 * 2^(n-2), in
\* loop order: t = (((i*2 + j)*2 + k)*2 + jj)*2 + kk.
RECURSIVE FillTemp1(_, _, _, _, _)
FillTemp1(gate, q0, q1, n, t) ==
    IF t < 0 THEN Zeros(2^n)
    ELSE LET prev == FillTemp1(gate, q0, q1, n, t - 1)
             kk == t % 2
             jj == (t \div 2) % 2
             k == (t \div 4) % 2
             j == (t \div 8) % 2
             i == t \div 16
             row == Index2(j, q0, k, q1, i)
             col == Index2(jj, q0, kk, q1, i)
         IN [prev EXCEPT ![row][col] = FloatCast(gate[j + 2 * k][jj + 2 * kk])]

\* temp1 of _add_unitary_two
AddUnitaryTwoOp(gate, q0, q1, n) == FillTemp1(gate, q0, q1, n, 16 * 2^(n - 2) - 1)

\* multiplication from the right
AccumulateRight(op, state) == Dot(state, op)

\* self._unitary_state = np.dot(<embedded operator>, self._unitary_state)
Accumulate(op, state) == Dot(op, state)

\* The exception _add_unitary_two raises before it reaches np.dot, or "none".
TwoRaises(q0, q1, n) ==
    IF n < 2 THEN "ValueError"
    ELSE IF ~Index2Pre(q0, q1) THEN "AssertionError"
    ELSE IF q0 = q1 /\ q1 = 0 THEN "ValueError"
    ELSE "none"

\* ------------------------------------------------- inputs: gate matrices
R(x) == <<x, 0>>
I(x) == <<0, x>>

\* np.array(rows), rows a tuple of tuples, as a 0-indexed array
Mat(rows) ==
    Array([r \in 0..(Len(rows) - 1) |-> [c \in 0..(Len(rows) - 1) |-> rows[r + 1][c + 1]]])

GateX == Mat(<< <<R(0), R(1)>>, <<R(1), R(0)>> >>)
\* a 2x2 matrix with pairwise distinct entries, none real
GateA == Mat(<< << <<1, 2>>, <<3, -1>> >>, << <<-2, 1>>, <<2, 3>> >> >>)

\* 'CX' as the module docstring gives it (qubit_indices[0] is the control)
GateCX == Mat(<< <<R(1), R(0), R(0), R(0)>>, <<R(0), R(0), R(0), R(1)>>,
                 <<R(0), R(0), R(1), R(0)>>, <<R(0), R(1), R(0), R(0)>> >>)
\* controlled-phase with phase -1
GateCZ == Mat(<< <<R(1), R(0), R(0), R(0)>>, <<R(0), R(1), R(0), R(0)>>,
                 <<R(0), R(0), R(1), R(0)>>, <<R(0), R(0), R(0), R(-1)>> >>)
\* diag(1, i, -i, 1), the phase gate S on qubit_indices[0] and its inverse on
\* qubit_indices[1]: unitary, and its two qubits differ in the imaginary parts only
GateDP == Mat(<< <<R(1), R(0), R(0), R(0)>>, <<R(0), I(1), R(0), R(0)>>,
                 <<R(0), R(0), I(-1), R(0)>>, <<R(0), R(0), R(0), R(1)>> >>)
\* a 4x4 matrix with pairwise distinct entries, none real
GateG == Mat(<< << <<-1, -2>>, <<-1, -1>>, <<-1, 1>>, <<-1, 2>> >>,
                << <<0, -2>>, <<0, -1>>, <<0, 1>>, <<0, 2>> >>,
                << <<1, -2>>, <<1, -1>>, <<1, 1>>, <<1, 2>> >>,
                << <<2, -2>>, <<2, -1>>, <<2, 1>>, <<2, 2>> >> >>)
\* Toffoli, an 8x8 gate
GateCCX == [r \in 0..7 |-> [c \in 0..7 |->
               IF (r = c /\ r \notin {3, 7}) \/ (r = 3 /\ c = 7) \/ (r = 7 /\ c = 3)
               THEN COne ELSE CZero]]

Gates1 == { [name |-> "X", matrix |-> GateX], [name |-> "A", matrix |-> GateA] }
Gates2 == { [name |-> "CX", matrix |-> GateCX], [name |-> "CZ", matrix |-> GateCZ],
            [name |-> "DP", matrix |-> GateDP], [name |-> "G", matrix |-> GateG] }

\* -------------------------------------------- inputs: operations, circuits
GateOp(g, qs, size) ==
    [type |-> "gate", name |-> g.name, qubit_indices |-> qs, gate_size |-> size,
     matrix |-> g.matrix]

\* The operations a circuit on n qubits draws from: every index lies in [0, n).
Ops(n) ==
    {GateOp(g, <<q>>, 1) : g \in Gates1, q \in 0..(n - 1)}
    \cup {GateOp(g, <<p[1], p[2]>>, 2) :
             g \in Gates2, p \in {x \in (0..(n - 1)) \X (0..(n - 1)) : x[1] # x[2]}}
    \cup {GateOp([name |-> "CX", matrix |-> GateCX], <<q, q>>, 2) : q \in 0..(n - 1)}
    \cup (IF n >= 3
          THEN {GateOp([name |-> "CCX", matrix |-> GateCCX], <<0, 1, 2>>, 3)}
          ELSE {})
    \cup {[type |-> "measure", cbit_indices |-> <<0>>, qubit_indices |-> <<0>>],
          [type |-> "reset", qubit_indices |-> <<0>>]}

Circuits(n) ==
    UNION {[1..len -> Ops(n)] : len \in {l \in 0..MaxOps : l * 2^n <= MaxWork}}

\* ------------------------------------------------------------------- state
VARIABLES number_of_qubits, qasm, j, unitary_state, temp1, result, printed,
          pc, err, runs, returned

vars == <<number_of_qubits, qasm, j, unitary_state, temp1, result, printed,
          pc, err, runs, returned>>

number_of_operations == Len(qasm)

\* the operation run() looks at in iteration j
Cur == qasm[j + 1]

\* UnitarySimulator(compiled_circuit), followed by the call of run()
Init ==
    /\ number_of_qubits \in 1..MaxQubits
    /\ qasm \in Circuits(number_of_qubits)
    /\ j = 0
    /\ unitary_state = Identity(2^number_of_qubits)
    /\ temp1 = <<>>
    /\ result = [data |-> <<>>, status |-> "unset"]
    /\ printed = <<>>
    /\ pc = "run"
    /\ err = "none"
    /\ runs = 1
    /\ returned = <<>>

InLoop == pc = "run" /\ j < number_of_operations

RunGateSingle ==
    /\ InLoop /\ Cur.type = "gate" /\ Cur.gate_size = 1
    /\ LET unitaty_add ==
               AddUnitarySingleOp(Cur.matrix, Cur.qubit_indices[1], number_of_qubits)
       IN /\ temp1' = <<unitaty_add>>
          /\ unitary_state' = Accumulate(unitaty_add, unitary_state)
    /\ j' = j + 1
    /\ UNCHANGED <<number_of_qubits, qasm, result, printed, pc, err, runs, returned>>

RunGateTwo ==
    /\ InLoop /\ Cur.type = "gate" /\ Cur.gate_size = 2
    /\ TwoRaises(Cur.qubit_indices[1], Cur.qubit_indices[2], number_of_qubits) = "none"
    /\ LET t == AddUnitaryTwoOp(Cur.matrix, Cur.qubit_indices[1], Cur.qubit_indices[2],
                                number_of_qubits)
       IN /\ temp1' = <<t>>
          /\ unitary_state' = Accumulate(t, unitary_state)
    /\ j' = j + 1
    /\ UNCHANGED <<number_of_qubits, qasm, result, printed, pc, err, runs, returned>>

\* the exception leaves run(): nothing is stored in self.result
RunGateTwoRaises ==
    /\ InLoop /\ Cur.type = "gate" /\ Cur.gate_size = 2
    /\ TwoRaises(Cur.qubit_indices[1], Cur.qubit_indices[2], number_of_qubits) # "none"
    /\ err' = TwoRaises(Cur.qubit_indices[1], Cur.qubit_indices[2], number_of_qubits)
    /\ pc' = "error"
    /\ temp1' = <<Zeros(2^number_of_qubits)>>
    /\ UNCHANGED <<number_of_qubits, qasm, j, unitary_state, result, printed, runs,
                   returned>>

\* neither branch of the gate_size test is taken
RunGateOther ==
    /\ InLoop /\ Cur.type = "gate" /\ Cur.gate_size \notin {1, 2}
    /\ j' = j + 1
    /\ UNCHANGED <<number_of_qubits, qasm, unitary_state, temp1, result, printed, pc,
                   err, runs, returned>>

\* a measure treated as an error
RunMeasureRaises ==
    /\ InLoop /\ Cur.type = "measure"
    /\ pc' = "error"
    /\ err' = "measure"
    /\ UNCHANGED <<number_of_qubits, qasm, j, unitary_state, temp1, result, printed,
                   runs, returned>>

RunMeasure ==
    /\ InLoop /\ Cur.type = "measure"
    /\ printed' = Append(printed, "Warning have dropped measure from unitary simulator")
    /\ j' = j + 1
    /\ UNCHANGED <<number_of_qubits, qasm, unitary_state, temp1, result, pc, err, runs,
                   returned>>

RunReset ==
    /\ InLoop /\ Cur.type = "reset"
    /\ printed' = Append(printed, "Warning have dropped reset from unitary simulator")
    /\ j' = j + 1
    /\ UNCHANGED <<number_of_qubits, qasm, unitary_state, temp1, result, pc, err, runs,
                   returned>>

\* the end of run(): the result is filled in and returned
RunReturn ==
    /\ pc = "run" /\ j = number_of_operations
    /\ result' = [data |-> <<unitary_state>>, status |-> "DONE"]
    /\ returned' = Append(returned, unitary_state)
    /\ pc' = "done"
    /\ UNCHANGED <<number_of_qubits, qasm, j, unitary_state, temp1, printed, err, runs>>

\* run() is called again on the same object: only the loop starts over
RunAgain ==
    /\ pc = "done" /\ runs < MaxRuns
    /\ runs' = runs + 1
    /\ j' = 0
    /\ pc' = "run"
    /\ UNCHANGED <<number_of_qubits, qasm, unitary_state, temp1, result, printed, err,
                   returned>>

Next ==
    \/ RunGateSingle
    \/ RunGateTwo
    \/ RunGateTwoRaises
    \/ RunGateOther
    \/ RunMeasure
    \/ RunReset
    \/ RunReturn
    \/ RunAgain

Spec == Init /\ [][Next]_vars

\* ------------------------------------------------ vocabulary of the claims
Bit(x, p) == (x \div 2^p) % 2

\* x with its bit p taken out, the bits above p moved down one place
DeleteBit(x, p) == (x \div 2^(p + 1)) * 2^p + (x % 2^p)

Qubits == 0..(number_of_qubits - 1)
Indices == 0..(2^number_of_qubits - 1)

IsGate(op) == op.type = "gate"
IsDropped(op) == op.type \in {"measure", "reset"}
IsGate1(op) == IsGate(op) /\ op.gate_size = 1
IsGate2(op) == IsGate(op) /\ op.gate_size = 2
\* a two-qubit gate operation on two distinct qubits
IsGate2d(op) == IsGate2(op) /\ op.qubit_indices[1] # op.qubit_indices[2]
\* a two-qubit gate operation naming one qubit twice
IsGate2e(op) == IsGate2(op) /\ op.qubit_indices[1] = op.qubit_indices[2]
IsGateOther(op) == IsGate(op) /\ op.gate_size \notin {1, 2}

\* the operation the loop of run() has just finished with
Processed == j >= 1 /\ pc \in {"run", "done"}
Last == qasm[j]

\* The unitary state a call of run() starts from: the identity of __init__ for
\* the first call on an object, what the previous call returned for a later one.
Start == IF runs = 1 THEN Identity(2^number_of_qubits) ELSE returned[runs - 1]

\* E(g): the full-register operator the embedders build for a gate operation
E(op) ==
    IF op.gate_size = 1
    THEN AddUnitarySingleOp(op.matrix, op.qubit_indices[1], number_of_qubits)
    ELSE AddUnitaryTwoOp(op.matrix, op.qubit_indices[1], op.qubit_indices[2],
                         number_of_qubits)

\* E(g_k) * ... * E(g_1) * start over the gate operations among ops[1..k]
RECURSIVE Product(_, _, _)
Product(ops, k, start) ==
    IF k = 0 THEN start
    ELSE IF IsGate1(ops[k]) \/ IsGate2(ops[k])
         THEN Dot(E(ops[k]), Product(ops, k - 1, start))
         ELSE Product(ops, k - 1, start)

CConj(a) == <<a[1], 0 - a[2]>>
Dagger(M) == Array([r \in DOMAIN M |-> [c \in DOMAIN M |-> CConj(M[c][r])]])
IsUnitary(M) == Dot(Dagger(M), M) = Identity(Dim(M))

RECURSIVE Count(_, _)
Count(ops, k) ==
    IF k = 0 THEN 0 ELSE Count(ops, k - 1) + (IF IsDropped(ops[k]) THEN 1 ELSE 0)

\* ------------------------------------------------------------------ claims

\* C1: for a circuit whose gate operations all have gate_size 1 or 2, run()
\* applies each gate once, in circuit order, by left-multiplication: after the
\* k-th operation the running state is E(g_k) * ... * E(g_1) * Start, and the
\* unitary returned is that product over the whole list.  Start is the 2^n
\* identity for the run of a newly constructed simulator, so a circuit with no
\* operation returns the identity.
C1_LeftProductInOrder ==
    (\A i \in 1..Len(qasm) : ~IsGateOther(qasm[i])) =>
        /\ (runs = 1 /\ j = 0 => unitary_state = Identity(2^number_of_qubits))
        /\ unitary_state = Product(qasm, j, Start)
        /\ pc = "done" =>
              /\ j = Len(qasm)
              /\ result.data = <<unitary_state>>
              /\ (runs = 1 /\ Len(qasm) = 0
                    => result.data = <<Identity(2^number_of_qubits)>>)

\* two gates that do not commute have been applied: the order shows in the result
C1_Witness ==
    /\ pc = "done" /\ runs = 1 /\ Len(qasm) = 2
    /\ IsGate1(qasm[1]) /\ IsGate2d(qasm[2])
    /\ result.data[1] = Dot(E(qasm[2]), E(qasm[1]))
    /\ result.data[1] # Dot(E(qasm[1]), E(qasm[2]))

\* the operator insertTwoBits places G into, entry by entry, with both parts kept
EntryPlaced(op, T) ==
    LET q0 == op.qubit_indices[1]
        q1 == op.qubit_indices[2]
        G == op.matrix
        Spect == 0..(2^(number_of_qubits - 2) - 1)
        Img == {<<Index2(b[1], q0, b[2], q1, i), Index2(b[3], q0, b[4], q1, i)>> :
                   b \in {0, 1} \X {0, 1} \X {0, 1} \X {0, 1}, i \in Spect}
    IN /\ \A i \in Spect : \A jb, kb, jjb, kkb \in {0, 1} :
              T[Index2(jb, q0, kb, q1, i)][Index2(jjb, q0, kkb, q1, i)]
                  = G[jb + 2 * kb][jjb + 2 * kkb]
       /\ \A r, c \in Indices : <<r, c>> \notin Img => T[r][c] = CZero

\* C2: the operator built for a two-qubit gate G on distinct qubits q0, q1 has
\* E[insertTwoBits(j,q0,k,q1,i), insertTwoBits(jj,q0,kk,q1,i)] = G[j+2k, jj+2kk],
\* real and imaginary part alike, and zero everywhere else.
C2_TwoQubitEntries ==
    (Processed /\ IsGate2d(Last)) => EntryPlaced(Last, temp1[1])

\* the operator of a one-qubit gate G on qubit q, qubit 0 least significant
SingleExpected(G, q) ==
    [r \in Indices |-> [c \in Indices |->
        IF \A p \in Qubits \ {q} : Bit(r, p) = Bit(c, p)
        THEN G[Bit(r, q)][Bit(c, q)] ELSE CZero]]

\* C3: the operator built for a one-qubit gate G on qubit q has
\* E[r,c] = G[bit q of r, bit q of c] where r and c agree on all other bits and
\* 0 elsewhere; hence on 2 qubits, A on qubit 0 then B on qubit 1 returns
\* B (x) A: output[r,c] = B[r div 2, c div 2] * A[r mod 2, c mod 2].
C3_QubitZeroLeastSignificant ==
    /\ (Processed /\ IsGate1(Last))
          => temp1 = <<SingleExpected(Last.matrix, Last.qubit_indices[1])>>
    /\ (/\ pc = "done" /\ runs = 1 /\ number_of_qubits = 2 /\ Len(qasm) = 2
        /\ IsGate1(qasm[1]) /\ qasm[1].qubit_indices[1] = 0
        /\ IsGate1(qasm[2]) /\ qasm[2].qubit_indices[1] = 1)
          => \A r, c \in Indices :
                result.data[1][r][c]
                    = CMul(qasm[2].matrix[r \div 2][c \div 2],
                           qasm[1].matrix[r % 2][c % 2])

\* A on qubit 0, then B = X on qubit 1, with B (x) A different from A (x) B
C3_Witness ==
    /\ pc = "done" /\ runs = 1 /\ number_of_qubits = 2 /\ Len(qasm) = 2
    /\ IsGate1(qasm[1]) /\ qasm[1].qubit_indices[1] = 0 /\ qasm[1].name = "A"
    /\ IsGate1(qasm[2]) /\ qasm[2].qubit_indices[1] = 1 /\ qasm[2].name = "X"
    /\ result.data[1] = Kron(GateX, GateA)
    /\ result.data[1] # Kron(GateA, GateX)

\* C4: with every gate of the circuit unitary (of gate_size 1 or 2), the
\* accumulated matrix U has U^dagger * U = I after every gate application.
C4_UnitaryAfterEveryGate ==
    (\A i \in 1..Len(qasm) :
        IsGate(qasm[i]) => qasm[i].gate_size \in {1, 2} /\ IsUnitary(qasm[i].matrix))
      => IsUnitary(unitary_state)

\* C5: measure and reset leave the unitary state alone and never fail the run:
\* the unitary returned is that of the circuit without them, one warning is
\* printed for each dropped operation, the status is DONE, and a run that fails
\* fails at a gate.
C5_DroppedOpsAreWarnings ==
    LET gates == SelectSeq(qasm, IsGate)
    IN /\ pc = "done" =>
             /\ result.status = "DONE"
             /\ result.data = <<Product(gates, Len(gates), Start)>>
       /\ Len(printed) = (runs - 1) * Count(qasm, Len(qasm)) + Count(qasm, j)
       /\ pc = "error" => IsGate(Cur)
       /\ result.status \in {"unset", "DONE"}

\* a circuit with a measure and a gate after it has run to the end
C5_Witness ==
    /\ pc = "done" /\ runs = 1 /\ Len(qasm) = 2
    /\ IsDropped(qasm[1]) /\ IsGate2d(qasm[2])
    /\ Len(printed) = 1
    /\ result.data = <<E(qasm[2])>>

\* C6: a gate operation with gate_size other than 1 and 2 makes the run fail:
\* the loop never gets past one (it is not skipped), and no run of a circuit
\* with one reaches DONE.
C6_OtherAritiesFail ==
    \A i \in 1..Len(qasm) :
        IsGateOther(qasm[i]) => /\ i > j
                                /\ pc # "done"
                                /\ result.status # "DONE"

\* C7: a two-qubit gate naming one qubit twice (n >= 2) fails the assertion of
\* _index2 and aborts the run: the loop never gets past it, the unitary state
\* is the one the preceding operations left, and no DONE result exists.
C7_EqualQubitsAbort ==
    number_of_qubits >= 2 =>
        /\ \A i \in 1..j : ~IsGate2e(qasm[i])
        /\ (pc = "error" /\ IsGate2e(Cur)) =>
              /\ err = "AssertionError"
              /\ unitary_state = Product(qasm, j, Start)
              /\ result.status # "DONE"
              /\ returned = <<>>

\* the run has failed at such an operation, after a gate that changed the state
C7_Witness ==
    /\ number_of_qubits >= 2 /\ pc = "error" /\ j = 1
    /\ IsGate1(qasm[1]) /\ IsGate2e(Cur) /\ Cur.qubit_indices[1] = 1
    /\ unitary_state = E(qasm[1])
    /\ unitary_state # Identity(2^number_of_qubits)

\* C8: run() called again on the same object returns the unitary the first
\* call returned.
C8_RunAgainSameUnitary ==
    \A i \in 1..Len(returned) : returned[i] = returned[1]

\* C9: for distinct positions (those of any two-qubit gate of the circuit, in
\* either order), all bits and every value below 2^(n-2), insertTwoBits gives
\* an index below 2^n with bit pos1 = bit1, bit pos2 = bit2, and value left when
\* the two bits are deleted; so (bit1, bit2, value) -> index is a bijection
\* onto [0, 2^n).
C9_InsertTwoBits ==
    \A i \in 1..Len(qasm) : IsGate2d(qasm[i]) =>
        LET p1 == qasm[i].qubit_indices[1]
            p2 == qasm[i].qubit_indices[2]
            hi == IF p1 > p2 THEN p1 ELSE p2
            lo == IF p1 > p2 THEN p2 ELSE p1
            Vals == 0..(2^(number_of_qubits - 2) - 1)
        IN /\ \A b1, b2 \in {0, 1} : \A v \in Vals :
                  LET r == Index2(b1, p1, b2, p2, v)
                  IN /\ r \in Indices
                     /\ Bit(r, p1) = b1
                     /\ Bit(r, p2) = b2
                     /\ DeleteBit(DeleteBit(r, hi), lo) = v
           /\ {Index2(b[1], p1, b[2], p2, v) : b \in {0, 1} \X {0, 1}, v \in Vals}
                  = Indices

\* gates on (2, 0) and on (0, 2) of a 3-qubit register have both been embedded
C9_Witness ==
    /\ pc = "done" /\ number_of_qubits = 3 /\ Len(qasm) = 2
    /\ IsGate2d(qasm[1]) /\ qasm[1].qubit_indices = <<2, 0>>
    /\ IsGate2d(qasm[2]) /\ qasm[2].qubit_indices = <<0, 2>>
    /\ temp1[1][Index2(1, 0, 0, 2, 1)][Index2(1, 0, 0, 2, 1)] # CZero
    /\ Index2(1, 0, 0, 2, 1) = 3
    /\ Index2(1, 2, 0, 0, 1) = 6

\* controlled-phase with the phase -1: diag(1, 1, 1, -1)
IsControlledPhase(G) ==
    /\ \A r, c \in 0..3 : r # c => G[r][c] = CZero
    /\ \A r \in 0..2 : G[r][r] = COne
    /\ G[3][3] = <<-1, 0>>

\* the operator the embedder builds with the two qubit indices in the other order
Swapped(op) ==
    AddUnitaryTwoOp(op.matrix, op.qubit_indices[2], op.qubit_indices[1],
                    number_of_qubits)

RealPartsAsymmetric(G) ==
    \E jb, kb, jjb, kkb \in {0, 1} :
        G[jb + 2 * kb][jjb + 2 * kkb][1] # G[kb + 2 * jb][kkb + 2 * jjb][1]

====
